---- MODULE Spec2Model ----
(***************************************************************************)
(* The VR Studio pages of the repository as one state machine.            *)
(*                                                                         *)
(* Two scripts are modelled, each the DOMContentLoaded closure of one      *)
(* page:                                                                   *)
(*   - the wizard page, src/static/js/vr_wizard.js lines 5-444: the five   *)
(*     step wizard (currentStep, selectedProcedure, generatedProjectId);   *)
(*   - the studio page, src/unnamed/part_001: the prompt form              *)
(*     (currentProjectId, generatedScripts).                               *)
(* A browser window holds one page, so the variable page says which of the *)
(* two scripts was loaded and only that script's handlers run.             *)
(*                                                                         *)
(* Every action is one run-to-completion event handler of the code (a      *)
(* click, a form submission, or the continuation of generateCode after its *)
(* awaits).  The server's response and the user's inputs are drawn from    *)
(* small sets.                                                             *)
(***************************************************************************)
EXTENDS Integers, Sequences, FiniteSets, TLC

(***************************************************************************)
(* JavaScript values.                                                      *)
(***************************************************************************)
NULL == "js:null"
UNDEFINED == "js:undefined"

\* x == null in JavaScript: true of null and of undefined.
IsNullish(v) == v \in {NULL, UNDEFINED}

\* ToBoolean for the values the model holds in identifiers (strings, null,
\* undefined): !v is true of null, undefined and the empty string.
Truthy(v) == v \notin {NULL, UNDEFINED, ""}

\* Mutant: the fallback is used whatever a is.
OrElse_fallback(a, b) == b

\* a || b
OrElse(a, b) == IF Truthy(a) THEN a ELSE b

\* An array or an absent property; arrays hold script objects or null.
JsUndefined == [t |-> "undefined"]
JsNull == [t |-> "null"]
JsArray(items) == [t |-> "array", items |-> items]
Script(filename) == [t |-> "script", filename |-> filename, content |-> "..."]

(***************************************************************************)
(* Bounds of the model.                                                    *)
(***************************************************************************)
\* Click listeners that loadPackageList may pile on the download button.
MaxDownloadListeners == 2
\* Longest scripts array in a response.
MaxScripts == 1

(***************************************************************************)
(* Program constants and the data the server renders into the page.       *)
(***************************************************************************)
totalSteps == 5

Steps == 1..totalSteps

\* window.VR_STUDIO_DATA.procedures: key -> name_sv.
ProcedureKeys == {"proc_a"}
NameSv(key) == "Procedur A"

\* data-procedure of the .procedure-card elements, each a non-empty key;
\* proc_x is a card whose key the procedures array does not list.
Cards == {"proc_a", "proc_x"}

\* window.VR_STUDIO_DATA.assets: procedure -> category -> array (its length).
AssetProcedures == {"proc_a"}
AssetCategoriesOf(proc) == <<"surgical_tools", "implants">>
AssetCount(proc, cat) == IF cat = "implants" THEN 0 ELSE 1

\* project_id values a response may carry.
ProjectIds == {"p1", "p2"}

(***************************************************************************)
(* State.                                                                  *)
(***************************************************************************)
VARIABLES
    page,               \* "wizard" | "studio": the script that was loaded
    unloaded,           \* TRUE once the page navigated away to /vr-studio/
    \* --- wizard: closure state (vr_wizard.js 7-11)
    currentStep,
    selectedProcedure,
    generatedProjectId,
    currentCategory,
    windowGeneratedScripts, \* window.generatedScripts
    \* --- wizard: DOM
    activeSteps,        \* .wizard-step panels with class active
    progressClass,      \* .progress-step i -> "" | "active" | "completed"
    progressFill,       \* width of #progressFill in percent
    prevBtnDisabled,
    nextBtnLabel,       \* "next" | "done"
    nextBtnOnclick,     \* TRUE when nextBtn.onclick is the completion handler
    selectedCards,      \* cards with class selected
    procedureName,      \* textContent of #procedureName
    assetCategories,    \* rendered category buttons and the procedure they close over
    assetList,          \* content of #assetList
    packageList,        \* TRUE when #packageList was rendered
    downloadListeners,  \* click listeners on #downloadProjectBtn
    tutorialList,       \* TRUE when #tutorialList was rendered
    codePreview,        \* content of #codePreview
    \* --- studio: closure state (part_001 32-33)
    currentProjectId,
    generatedScripts,
    studioView,         \* which of loadingState / emptyState / codeOutput shows
    \* --- both pages
    generateBtnDisabled,
    inFlight,           \* fetch calls to /vr-studio/generate not yet settled
    \* --- observation of the last handler that ran
    lastOp,             \* its name
    toasts,             \* the showToast calls it made, in order
    uncaught,           \* TRUE when it ended by an uncaught exception
    navigations,        \* the values it assigned to window.location.href, in order
    successSeen         \* some response with a truthy success was handled

navVars == <<currentStep, activeSteps, progressClass, progressFill,
             prevBtnDisabled, nextBtnLabel, nextBtnOnclick>>
assetVars == <<currentCategory, assetCategories, assetList>>
stepViewVars == <<packageList, downloadListeners, tutorialList>>
cardVars == <<selectedProcedure, selectedCards, procedureName>>
genVars == <<generatedProjectId, windowGeneratedScripts, codePreview,
             generateBtnDisabled, inFlight, successSeen>>
studioVars == <<currentProjectId, generatedScripts, studioView>>
pageVars == <<page, unloaded>>
obsVars == <<lastOp, toasts, uncaught, navigations>>

vars == <<pageVars, navVars, assetVars, stepViewVars, cardVars, genVars,
          studioVars, obsVars>>

Toast(message, type) == [message |-> message, type |-> type]

\* What the handler that just ran leaves for observation.
Observe(op, shown, threw, navs) ==
    /\ lastOp' = op
    /\ toasts' = shown
    /\ uncaught' = threw
    /\ navigations' = navs

(***************************************************************************)
(* Page load: the state after init() (vr_wizard.js 27-34) or after the     *)
(* studio script's top level ran.  The markup is served by the server: the *)
(* first panel is the active one, and the Previous button may or may not   *)
(* carry the disabled attribute.                                           *)
(***************************************************************************)
ProgressOf(step) == (step * 100) \div totalSteps

\* Mutant: the first card preselected at load.
wizardState0_preselected ==
    /\ currentStep = 1
    /\ selectedProcedure = "proc_a"
    /\ generatedProjectId = NULL

\* The closure's state variables as declared (vr_wizard.js 7-10).
wizardState0 ==
    /\ currentStep = 1
    /\ selectedProcedure = NULL
    /\ generatedProjectId = NULL

Init ==
    /\ page \in {"wizard", "studio"}
    /\ unloaded = FALSE
    /\ wizardState0
    /\ currentCategory = "anatomy_skeletal"
    /\ windowGeneratedScripts = JsUndefined
    /\ activeSteps = {1}
    /\ progressClass = [i \in Steps |-> IF i = 1 THEN "active" ELSE ""]
    /\ progressFill = ProgressOf(1)
    /\ prevBtnDisabled \in (IF page = "wizard" THEN BOOLEAN ELSE {FALSE})
    /\ nextBtnLabel = "next"
    /\ nextBtnOnclick = FALSE
    /\ selectedCards = {}
    /\ procedureName = ""
    /\ assetCategories = [procedure |-> NULL, categories |-> <<>>, active |-> NULL]
    /\ assetList = [t |-> "initial", procedure |-> NULL, category |-> NULL]
    /\ packageList = FALSE
    /\ downloadListeners = 0
    /\ tutorialList = FALSE
    /\ codePreview = [t |-> "initial", detail |-> <<>>]
    /\ currentProjectId = NULL
    /\ generatedScripts = JsArray(<<>>)
    /\ studioView = [loading |-> FALSE, empty |-> TRUE, output |-> FALSE,
                     actions |-> FALSE, download |-> FALSE]
    /\ generateBtnDisabled = FALSE
    /\ inFlight = 0
    /\ lastOp = "load"
    /\ toasts = <<>>
    /\ uncaught = FALSE
    /\ navigations = <<>>
    /\ successSeen = FALSE

\* The page's handlers run while the document is alive.
WizardAlive == page = "wizard" /\ ~unloaded
StudioAlive == page = "studio" /\ ~unloaded

\* goToStep hides every panel but the one it shows (lines 57-63); the
\* controls inside a panel can be clicked while that panel is shown.
PanelShown(step) == step \in activeSteps

(***************************************************************************)
(* Wizard: navigation (vr_wizard.js 40-119).                               *)
(***************************************************************************)
SeqContains(s, x) == \E i \in 1..Len(s) : s[i] = x

\* renderAssets(assetArray) for the array assets[proc][cat].
renderAssets(proc, cat) ==
    assetList' = IF AssetCount(proc, cat) = 0
                 THEN [t |-> "empty_category", procedure |-> proc, category |-> cat]
                 ELSE [t |-> "assets", procedure |-> proc, category |-> cat]

loadAssetsForProcedure ==
    IF selectedProcedure \notin AssetProcedures
    THEN /\ assetList' = [t |-> "no_assets", procedure |-> NULL, category |-> NULL]
         /\ UNCHANGED <<currentCategory, assetCategories>>
    ELSE LET categories == AssetCategoriesOf(selectedProcedure) IN
         /\ assetCategories' =
                [procedure |-> selectedProcedure, categories |-> categories,
                 active |-> IF SeqContains(categories, currentCategory)
                            THEN currentCategory ELSE NULL]
         /\ IF SeqContains(categories, currentCategory)
            THEN /\ renderAssets(selectedProcedure, currentCategory)
                 /\ UNCHANGED currentCategory
            ELSE /\ currentCategory' = categories[1]
                 /\ renderAssets(selectedProcedure, categories[1])

\* loadPackageList adds one more click listener to the download button on
\* every call; the model stops at MaxDownloadListeners of them.
loadPackageList ==
    /\ downloadListeners < MaxDownloadListeners
    /\ packageList' = TRUE
    /\ downloadListeners' = downloadListeners + 1

loadTutorials == tutorialList' = TRUE

\* Mutant: the Previous button is never disabled.
updateNavButtons_prevEnabled(step) ==
    /\ prevBtnDisabled' = FALSE
    /\ IF step = totalSteps
       THEN /\ nextBtnLabel' = "done"
            /\ nextBtnOnclick' = TRUE
       ELSE /\ nextBtnLabel' = "next"
            /\ UNCHANGED nextBtnOnclick

\* updateNavButtons with currentStep already set to step.
updateNavButtons(step) ==
    /\ prevBtnDisabled' = (step = 1)
    /\ IF step = totalSteps
       THEN /\ nextBtnLabel' = "done"
            /\ nextBtnOnclick' = TRUE
       ELSE /\ nextBtnLabel' = "next"
            /\ UNCHANGED nextBtnOnclick

goToStep(step) ==
    /\ activeSteps' = {step}
    /\ currentStep' = step
    /\ progressClass' = [i \in Steps |-> IF i < step THEN "completed"
                                          ELSE IF i = step THEN "active" ELSE ""]
    /\ progressFill' = ProgressOf(step)
    /\ updateNavButtons(step)
    /\ IF step = 2 /\ Truthy(selectedProcedure)
       THEN loadAssetsForProcedure
       ELSE UNCHANGED assetVars
    /\ IF step = 4
       THEN loadPackageList /\ UNCHANGED tutorialList
       ELSE IF step = 5
            THEN loadTutorials /\ UNCHANGED <<packageList, downloadListeners>>
            ELSE UNCHANGED stepViewVars

\* Mutant: the selection gate of step 1 left out.
validateStep_noSelection(step) ==
    ~(step = 3 /\ ~Truthy(generatedProjectId))

\* Mutant: the artifact gate of step 3 left out.
validateStep_noArtifact(step) ==
    ~(step = 1 /\ ~Truthy(selectedProcedure))

validateStep(step) ==
    /\ ~(step = 1 /\ ~Truthy(selectedProcedure))
    /\ ~(step = 3 /\ ~Truthy(generatedProjectId))

\* The showToast call validateStep makes when it returns false.
validateStepToast(step) ==
    IF step = 1 /\ ~Truthy(selectedProcedure)
    THEN <<Toast("Välj en procedur först", "warning")>>
    ELSE IF step = 3 /\ ~Truthy(generatedProjectId)
         THEN <<Toast("Generera kod först", "warning")>>
         ELSE <<>>

\* The completion handler's target (line 102).
CompletionUrl == "/vr-studio/"

\* The click listener of the Previous button; a disabled button receives no
\* click.
\* Mutant: going back refused while a generation request is in flight.
prevClickGuard_idle == currentStep > 1 /\ inFlight = 0

prevClickGuard == currentStep > 1

PrevClick ==
    /\ WizardAlive
    /\ ~prevBtnDisabled
    /\ IF prevClickGuard
       THEN goToStep(currentStep - 1)
       ELSE UNCHANGED <<navVars, assetVars, stepViewVars>>
    /\ Observe("prev", <<>>, FALSE, <<>>)
    /\ UNCHANGED <<pageVars, cardVars, genVars, studioVars>>

\* The Next button: the click listener of setupNavigation runs first, then
\* the onclick handler if updateNavButtons installed one before this click
\* (a handler installed while the click is dispatched is not run by it).
\* Mutant: the upper bound on the step left out.
nextClickGuard_noBound == TRUE

nextClickGuard == currentStep < totalSteps

NextClick ==
    /\ WizardAlive
    /\ IF validateStep(currentStep) /\ nextClickGuard
       THEN goToStep(currentStep + 1)
       ELSE UNCHANGED <<navVars, assetVars, stepViewVars>>
    /\ IF nextBtnOnclick
       THEN /\ unloaded' = TRUE
            /\ Observe("next",
                       validateStepToast(currentStep)
                           \o <<Toast("Lycka till med din VR-simulering!", "success")>>,
                       FALSE, <<CompletionUrl>>)
       ELSE /\ UNCHANGED unloaded
            /\ Observe("next", validateStepToast(currentStep), FALSE, <<>>)
    /\ UNCHANGED <<page, cardVars, genVars, studioVars>>

(***************************************************************************)
(* Wizard: procedure cards and asset categories (vr_wizard.js 125-194).    *)
(***************************************************************************)
\* Mutant: the other cards are not deselected.
cardSelect_noDeselect(card) ==
    /\ selectedCards' = selectedCards \cup {card}
    /\ selectedProcedure' = card

\* Lines 129-133: deselect all cards, select this one, record its key.
cardSelect(card) ==
    /\ selectedCards' = {card}
    /\ selectedProcedure' = card

CardClick(card) ==
    /\ WizardAlive
    /\ PanelShown(1)
    /\ cardSelect(card)
    /\ IF card \in ProcedureKeys
       THEN /\ procedureName' = NameSv(card)
            /\ Observe("select", <<Toast(NameSv(card) \o " vald", "success")>>, FALSE, <<>>)
       ELSE \* proc is undefined: `${proc.name_sv} vald` throws a TypeError
            /\ UNCHANGED procedureName
            /\ Observe("select", <<>>, TRUE, <<>>)
    /\ UNCHANGED <<pageVars, navVars, assetVars, stepViewVars, genVars, studioVars>>

CategoryClick(i) ==
    /\ WizardAlive
    /\ PanelShown(2)
    /\ i \in 1..Len(assetCategories.categories)
    /\ LET cat == assetCategories.categories[i] IN
       /\ currentCategory' = cat
       /\ assetCategories' = [assetCategories EXCEPT !.active = cat]
       /\ renderAssets(assetCategories.procedure, cat)
    /\ Observe("category", <<>>, FALSE, <<>>)
    /\ UNCHANGED <<pageVars, navVars, stepViewVars, cardVars, genVars, studioVars>>

(***************************************************************************)
(* The generation endpoint's answers, as the awaiting code sees them.      *)
(*   network_error: fetch rejects;  bad_json: response.json() rejects;     *)
(*   json: the parsed body, with the HTTP status it came with.             *)
(***************************************************************************)
RECURSIVE SeqsUpTo(_, _)
SeqsUpTo(S, n) ==
    IF n = 0 THEN {<<>>}
    ELSE LET shorter == SeqsUpTo(S, n - 1) IN
         shorter \cup {Append(q, x) : q \in shorter, x \in S}

ScriptsValues ==
    {JsUndefined} \cup {JsArray(q) : q \in SeqsUpTo({Script("A.cs"), JsNull}, MaxScripts)}

\* A body that reports success carries scripts and possibly a project_id; one
\* that reports failure possibly an error text.
Bodies ==
    [success : {TRUE},
     project_id : ProjectIds \cup {UNDEFINED},
     scripts : ScriptsValues,
     error : {UNDEFINED}]
    \cup
    [success : {FALSE},
     project_id : ProjectIds \cup {UNDEFINED},
     scripts : {JsUndefined},
     error : {UNDEFINED, "boom"}]

Responses ==
    {[kind |-> "network_error"], [kind |-> "bad_json"]}
    \cup [kind : {"json"}, status : {200, 500}, data : Bodies]

NetworkErrorMessage == "Failed to fetch"
JsonErrorMessage == "Unexpected token < in JSON at position 0"
NullScriptMessage == "Cannot read properties of null (reading 'filename')"

\* data.scripts && data.scripts.length > 0
HasScripts(scripts) == scripts.t = "array" /\ Len(scripts.items) > 0

\* Rendering a script reads script.filename: a TypeError on a null element.
RenderThrows(scripts) ==
    HasScripts(scripts) /\ SeqContains(scripts.items, JsNull)

\* The outcome of the try block of generateCode / of the submit handler for
\* response r: "ok", or the message of the exception that reaches catch.
\* success is tested before anything is rendered.
TryOutcome(r) ==
    IF r.kind = "network_error" THEN NetworkErrorMessage
    ELSE IF r.kind = "bad_json" THEN JsonErrorMessage
    ELSE IF ~r.data.success THEN OrElse(r.data.error, "Okänt fel")
    ELSE IF RenderThrows(r.data.scripts) THEN NullScriptMessage
    ELSE "ok"

\* The branch `if (data.success)` is entered.
SuccessBranch(r) == r.kind = "json" /\ r.data.success

(***************************************************************************)
(* Wizard: code generation (vr_wizard.js 224-348).                         *)
(***************************************************************************)
\* generateBtn.disabled = true (line 269); a disabled button receives no
\* click, which is what keeps generateCode from running twice.
\* Mutant: the button is left enabled while the request is in flight.
generateShowLoading_enabled == UNCHANGED generateBtnDisabled

generateShowLoading == generateBtnDisabled' = TRUE

GenerateClick ==
    /\ WizardAlive
    /\ PanelShown(3)
    /\ ~generateBtnDisabled
    /\ generateShowLoading
    /\ codePreview' = [t |-> "loading", detail |-> <<>>]
    /\ inFlight' = inFlight + 1
    /\ Observe("generate", <<>>, FALSE, <<>>)
    /\ UNCHANGED <<pageVars, navVars, assetVars, stepViewVars, cardVars, studioVars,
                   generatedProjectId, windowGeneratedScripts, successSeen>>

\* Mutant: project_id stored before success is tested.
generateStoreId_beforeCheck(r) ==
    IF r.kind = "json" THEN r.data.project_id ELSE generatedProjectId

\* The value generatedProjectId has after the try block ran on response r.
generateStoreId(r) ==
    IF SuccessBranch(r) THEN r.data.project_id ELSE generatedProjectId

\* renderGeneratedCode(data) when it returns normally: the preview it writes
\* and, when there are scripts, window.generatedScripts.
renderGeneratedCode(data) ==
    IF HasScripts(data.scripts)
    THEN /\ codePreview' = [t |-> "scripts", detail |-> data.scripts.items]
         /\ windowGeneratedScripts' = data.scripts
    ELSE /\ codePreview' = [t |-> "no_code", detail |-> <<>>]
         /\ UNCHANGED windowGeneratedScripts

\* The catch block (lines 300-309): the preview shows error.message.  A
\* throwing renderGeneratedCode has written nothing: the template is
\* evaluated before innerHTML and window.generatedScripts are assigned.
generateCatch(message) ==
    /\ codePreview' = [t |-> "error", detail |-> <<message>>]
    /\ UNCHANGED windowGeneratedScripts

\* Mutant: the button is re-enabled at the end of the try block instead of
\* in finally.
generateFinally_inTry(r) == generateBtnDisabled' = (TryOutcome(r) # "ok")

\* The finally block (lines 310-313), run after every outcome of r.
generateFinally(r) == generateBtnDisabled' = FALSE

\* The continuation of generateCode once fetch and response.json() settled:
\* lines 291-313, try / catch / finally.
GenerateResponse(r) ==
    /\ WizardAlive
    /\ inFlight > 0
    /\ generatedProjectId' = generateStoreId(r)
    /\ successSeen' = (successSeen \/ SuccessBranch(r))
    /\ IF TryOutcome(r) = "ok"
       THEN /\ renderGeneratedCode(r.data)
            /\ Observe("response", <<Toast("Kod genererad!", "success")>>, FALSE, <<>>)
       ELSE /\ generateCatch(TryOutcome(r))
            /\ Observe("response", <<Toast("Fel: " \o TryOutcome(r), "error")>>, FALSE, <<>>)
    /\ generateFinally(r)
    /\ inFlight' = inFlight - 1
    /\ UNCHANGED <<pageVars, navVars, assetVars, stepViewVars, cardVars, studioVars>>

\* window.copyScript(index), the onclick of a rendered copy button.
CopyScript(index) ==
    /\ WizardAlive
    /\ PanelShown(3)
    /\ codePreview.t = "scripts"
    /\ index \in 1..Len(codePreview.detail)
    /\ IF windowGeneratedScripts.t = "array"
          /\ index <= Len(windowGeneratedScripts.items)
       THEN Observe("copy", <<Toast("Kopierad!", "success")>>, FALSE, <<>>)
       ELSE Observe("copy", <<>>, FALSE, <<>>)
    /\ UNCHANGED <<pageVars, navVars, assetVars, stepViewVars, cardVars, genVars,
                   studioVars>>

(***************************************************************************)
(* Wizard: download (vr_wizard.js 366-376).  Every listener that           *)
(* loadPackageList added runs on one click.                                *)
(***************************************************************************)
\* Mutant: the id is left out of the download location.
DownloadUrl_noId(id) == "/vr-studio/download/"

DownloadUrl(id) == "/vr-studio/download/" \o id

RECURSIVE Repeat(_, _)
Repeat(x, n) == IF n = 0 THEN <<>> ELSE Append(Repeat(x, n - 1), x)

DownloadClick ==
    /\ WizardAlive
    /\ PanelShown(4)
    /\ downloadListeners > 0
    /\ IF Truthy(generatedProjectId)
       THEN Observe("download",
                    Repeat(Toast("Laddar ner...", "success"), downloadListeners),
                    FALSE, Repeat(DownloadUrl(generatedProjectId), downloadListeners))
       ELSE Observe("download",
                    Repeat(Toast("Generera kod först (steg 3)", "warning"),
                           downloadListeners),
                    FALSE, <<>>)
    /\ UNCHANGED <<pageVars, navVars, assetVars, stepViewVars, cardVars,
                   genVars, studioVars>>

(***************************************************************************)
(* Studio page (part_001): the prompt form.                                *)
(***************************************************************************)
\* Longest prompt typed into the form, in characters.
MaxPromptLen == 2

\* A prompt is a sequence of characters; " " is white space.
Prompts == SeqsUpTo({" ", "x"}, MaxPromptLen)

\* Mutant: the prompt is tested without trimming.
Trim_none(s) == s

RECURSIVE TrimStart(_)
TrimStart(s) ==
    IF s # <<>> /\ Head(s) = " " THEN TrimStart(Tail(s)) ELSE s

RECURSIVE TrimEnd(_)
TrimEnd(s) ==
    IF s # <<>> /\ s[Len(s)] = " " THEN TrimEnd(SubSeq(s, 1, Len(s) - 1)) ELSE s

\* String.prototype.trim
Trim(s) == TrimEnd(TrimStart(s))

setLoadingState(view, loading) ==
    IF loading
    THEN [loading |-> TRUE, empty |-> FALSE, output |-> FALSE,
          actions |-> FALSE, download |-> FALSE]
    ELSE [view EXCEPT !.loading = FALSE]

\* The submit handler up to its first await (lines 59-86).  The disabled
\* submit button keeps the form from being submitted again.
StudioSubmit(prompt) ==
    /\ StudioAlive
    /\ ~generateBtnDisabled
    /\ IF Trim(prompt) = <<>>
       THEN /\ Observe("submit", <<Toast("Skriv en prompt först", "warning")>>, FALSE, <<>>)
            /\ UNCHANGED <<studioView, generateBtnDisabled, inFlight>>
       ELSE /\ studioView' = setLoadingState(studioView, TRUE)
            /\ generateBtnDisabled' = TRUE
            /\ inFlight' = inFlight + 1
            /\ Observe("submit", <<>>, FALSE, <<>>)
    /\ UNCHANGED <<pageVars, navVars, assetVars, stepViewVars, cardVars,
                   generatedProjectId, windowGeneratedScripts, codePreview,
                   successSeen, currentProjectId, generatedScripts>>

\* currentProjectId and generatedScripts after the try block ran on r
\* (lines 90-92: both are assigned before displayResults runs).
studioStoreId(r) ==
    IF SuccessBranch(r) THEN r.data.project_id ELSE currentProjectId

studioStoreScripts(r) ==
    IF SuccessBranch(r)
    THEN (IF r.data.scripts.t = "array" THEN r.data.scripts ELSE JsArray(<<>>))
    ELSE generatedScripts

\* displayResults(data), lines 107-158; it throws in createScriptBlock when a
\* script is null, after the output panels were shown and before the
\* download panel is.
displayResults(view, data) ==
    LET shown == [setLoadingState(view, FALSE) EXCEPT
                     !.empty = FALSE, !.output = TRUE, !.actions = TRUE] IN
    IF RenderThrows(data.scripts) THEN shown
    ELSE [shown EXCEPT !.download = TRUE]

\* The catch block, lines 98-103.
studioCatch(view) == [setLoadingState(view, FALSE) EXCEPT !.empty = TRUE]

\* The continuation of the submit handler, lines 88-103.
StudioResponse(r) ==
    /\ StudioAlive
    /\ inFlight > 0
    /\ currentProjectId' = studioStoreId(r)
    /\ generatedScripts' = studioStoreScripts(r)
    /\ successSeen' = (successSeen \/ SuccessBranch(r))
    /\ IF TryOutcome(r) = "ok"
       THEN /\ studioView' = displayResults(studioView, r.data)
            /\ Observe("response", <<Toast("Kod genererad!", "success")>>, FALSE, <<>>)
       ELSE /\ studioView' =
                  studioCatch(IF SuccessBranch(r)
                              THEN displayResults(studioView, r.data)
                              ELSE studioView)
            /\ Observe("response", <<Toast("Fel: " \o TryOutcome(r), "error")>>, FALSE, <<>>)
    /\ generateBtnDisabled' = FALSE
    /\ inFlight' = inFlight - 1
    /\ UNCHANGED <<pageVars, navVars, assetVars, stepViewVars, cardVars,
                   generatedProjectId, windowGeneratedScripts, codePreview>>

\* downloadProject, lines 208-220 (both download buttons).
downloadProject ==
    /\ StudioAlive
    /\ IF ~Truthy(currentProjectId)
       THEN Observe("download", <<Toast("Ingen projekt att ladda ner", "warning")>>,
                    FALSE, <<>>)
       ELSE Observe("download", <<Toast("Laddar ner...", "success")>>, FALSE,
                    <<DownloadUrl(currentProjectId)>>)
    /\ UNCHANGED <<pageVars, navVars, assetVars, stepViewVars, cardVars,
                   genVars, studioVars>>

\* The copy-all button, lines 194-202.
StudioCopy ==
    /\ StudioAlive
    /\ IF Len(generatedScripts.items) > 0
       THEN Observe("copy", <<Toast("All kod kopierad!", "success")>>, FALSE, <<>>)
       ELSE Observe("copy", <<>>, FALSE, <<>>)
    /\ UNCHANGED <<pageVars, navVars, assetVars, stepViewVars, cardVars, genVars,
                   studioVars>>

(***************************************************************************)
(* The specification.                                                      *)
(***************************************************************************)
Next ==
    \/ PrevClick
    \/ NextClick
    \/ \E card \in Cards : CardClick(card)
    \/ \E i \in 1..2 : CategoryClick(i)
    \/ GenerateClick
    \/ \E r \in Responses : GenerateResponse(r)
    \/ \E i \in 1..MaxScripts : CopyScript(i)
    \/ DownloadClick
    \/ \E prompt \in Prompts : StudioSubmit(prompt)
    \/ \E r \in Responses : StudioResponse(r)
    \/ downloadProject
    \/ StudioCopy

Spec == Init /\ [][Next]_vars

(***************************************************************************)
(* Properties.                                                             *)
(***************************************************************************)
HasToast(shown, type) == \E i \in 1..Len(shown) : shown[i].type = type

\* validate(s) as the specification words it: step 1 needs a selection, the
\* generation step 3 needs an artifact id, every other step passes.
SpecValidate(step) ==
    /\ (step = 1 => ~IsNullish(selectedProcedure))
    /\ (step = 3 => ~IsNullish(generatedProjectId))

\* C1: in every reachable state currentStep is an integer in 1..5.
C1_StepInRange == currentStep \in 1..totalSteps

\* Next was clicked on the last step and the step stayed 5.
C1_Witness ==
    /\ lastOp = "next"
    /\ currentStep = totalSteps
    /\ navigations = <<CompletionUrl>>

\* C2: whenever currentStep >= 2 a procedure is selected, also after going
\* back to step 1, selecting another card and advancing again.
C2_SelectionBeyondStep1 == currentStep >= 2 => ~IsNullish(selectedProcedure)

\* Step 2 was entered from step 1 with proc_x selected, and it had been
\* entered before with proc_a (whose category buttons are still rendered).
C2_Witness ==
    /\ lastOp = "next"
    /\ currentStep = 2
    /\ selectedProcedure = "proc_x"
    /\ assetCategories.procedure = "proc_a"

\* C3 (the claim as stated): whenever currentStep >= 4, generatedProjectId is
\* non-null, under every interleaving of navigation with a generation request
\* whose response arrives later.
C3_ArtifactBeyondStep3 == currentStep >= 4 => ~IsNullish(generatedProjectId)

\* C4: a Next click in a step s < 5 moves to s + 1 exactly when validate(s)
\* holds; when it does not, a warning is shown and currentStep, the selection
\* and the artifact id are unchanged.
C4_NextIffValid ==
    [][(lastOp' = "next" /\ currentStep < totalSteps) =>
          /\ (currentStep' = currentStep + 1) <=> SpecValidate(currentStep)
          /\ ~SpecValidate(currentStep) =>
                /\ HasToast(toasts', "warning")
                /\ currentStep' = currentStep
                /\ selectedProcedure' = selectedProcedure
                /\ generatedProjectId' = generatedProjectId]_vars

\* Next was rejected at the generation step: warning shown, still step 3.
C4_Witness ==
    /\ lastOp = "next"
    /\ currentStep = 3
    /\ IsNullish(generatedProjectId)
    /\ HasToast(toasts, "warning")

\* C5: step 4 is not entered before some response with success true was
\* handled: until then the wizard is below step 4 and every Next click at
\* step 3 leaves it at step 3.
C5_NoStep4BeforeSuccess ==
    [][/\ (~successSeen' => currentStep' < 4)
       /\ (lastOp' = "next" /\ currentStep = 3 /\ ~successSeen) =>
              currentStep' = 3]_vars

\* A request was answered by a failure, and the Next click after it was
\* rejected at step 3.
C5_Witness ==
    /\ lastOp = "next"
    /\ currentStep = 3
    /\ ~successSeen
    /\ codePreview.t = "error"
    /\ HasToast(toasts, "warning")

\* C6: a Previous click moves from s > 1 to s - 1 whatever the selection, the
\* artifact id and the requests in flight are (the button is enabled in every
\* step above 1), and leaves step 1 at step 1.
C6_BackAlwaysMoves ==
    [][/\ (currentStep > 1 => ~prevBtnDisabled)
       /\ lastOp' = "prev" =>
              currentStep' = IF currentStep > 1 THEN currentStep - 1 ELSE 1]_vars

\* Previous moved from step 3 to step 2 while a request was in flight and no
\* artifact id was set.
C6_Witness ==
    /\ lastOp = "prev"
    /\ currentStep = 2
    /\ inFlight > 0
    /\ IsNullish(generatedProjectId)

\* C7 (the claim as stated): Next in step 5 navigates to /vr-studio/ and
\* makes no step transition; Next in a step below 5 never navigates away,
\* also after step 5 was visited.
C7_CompletionOnlyAtLastStep ==
    [][lastOp' = "next" =>
          IF currentStep = totalSteps
          THEN navigations' = <<CompletionUrl>> /\ currentStep' = currentStep
          ELSE navigations' = <<>>]_vars

\* C8 (the claim as stated): a generation attempt that ends with an error
\* message leaves the artifact id and the stored scripts as they were.
C8_FailureLeavesStateAlone ==
    [][(lastOp' = "response" /\ HasToast(toasts', "error")) =>
          /\ generatedProjectId' = generatedProjectId
          /\ windowGeneratedScripts' = windowGeneratedScripts
          /\ currentProjectId' = currentProjectId
          /\ generatedScripts' = generatedScripts]_vars

\* C9: a generation handler that passes its precondition issues exactly one
\* call, handling the response issues none (no retry), no other handler
\* touches the calls in flight, the control is disabled while a call is in
\* flight, and at most one call is in flight.
C9_OneCallAtATime ==
    [][/\ inFlight' <= 1
       /\ (inFlight' > 0 => generateBtnDisabled')
       /\ inFlight' = inFlight +
             (CASE lastOp' = "generate" -> 1
                [] lastOp' = "submit" /\ ~HasToast(toasts', "warning") -> 1
                [] lastOp' = "response" -> 0 - 1
                [] OTHER -> 0)]_vars

\* A second request is in flight after an earlier one was answered.
C9_Witness ==
    /\ lastOp = "generate"
    /\ inFlight = 1
    /\ codePreview.t = "loading"
    /\ successSeen

\* C10 (the claim as stated): after a response with success true was handled
\* the artifact id is the response's, the button is enabled again and Next
\* from step 3 would pass validation.
C10_SuccessUnlocksStep3 ==
    [][\A r \in Responses :
          (GenerateResponse(r) /\ SuccessBranch(r)) =>
              /\ generatedProjectId' = r.data.project_id
              /\ ~generateBtnDisabled'
              /\ ~IsNullish(generatedProjectId')]_vars

\* A status in the 2xx range (response.ok).
StatusOk(status) == status >= 200 /\ status <= 299

\* C11 (the claim as stated): a response with a non-2xx status is handled as
\* a failure whatever its body says: an error is shown and neither page's
\* artifact id is set from it.
C11_Non2xxIsFailure ==
    [][\A r \in Responses :
          ((GenerateResponse(r) \/ StudioResponse(r))
              /\ r.kind = "json" /\ ~StatusOk(r.status)) =>
              /\ HasToast(toasts', "error")
              /\ generatedProjectId' = generatedProjectId
              /\ currentProjectId' = currentProjectId]_vars

\* A prompt that is empty once its white space is trimmed.
IsBlank(prompt) == \A i \in 1..Len(prompt) : prompt[i] = " "

\* C12: a generation request with an empty or white-space prompt shows a
\* validation warning, issues no call, does not become busy and leaves the
\* artifact id, the stored scripts and the view unchanged.
C12_EmptyPromptRejected ==
    [][\A prompt \in Prompts :
          (StudioSubmit(prompt) /\ IsBlank(prompt)) =>
              /\ HasToast(toasts', "warning")
              /\ inFlight' = inFlight
              /\ ~generateBtnDisabled'
              /\ UNCHANGED <<currentProjectId, generatedScripts, studioView,
                             generatedProjectId, windowGeneratedScripts>>]_vars

\* A blank prompt was rejected after an artifact had been generated.
C12_Witness ==
    /\ lastOp = "submit"
    /\ HasToast(toasts, "warning")
    /\ inFlight = 0
    /\ currentProjectId = "p1"

\* C13: the control is disabled exactly while a call is in flight: it is
\* disabled when the call is issued, enabled again by the handling of every
\* outcome, and by nothing else, so it stays disabled while the call is
\* unresolved.
C13_BusyWhileInFlight ==
    [][/\ (generateBtnDisabled' <=> inFlight' > 0)
       /\ (lastOp' = "response" => ~generateBtnDisabled')
       /\ (generateBtnDisabled /\ lastOp' # "response") => generateBtnDisabled']_vars

\* A failed call was handled and the control is enabled again.
C13_Witness ==
    /\ lastOp = "response"
    /\ HasToast(toasts, "error")
    /\ ~generateBtnDisabled
    /\ inFlight = 0

\* C14: selecting a card sets the selection to that card, marks exactly
\* that card and changes nothing else of the wizard state: the step, the
\* artifact id and the request in flight are as before.
C14_SelectOnlySelects ==
    [][lastOp' = "select" =>
          /\ selectedProcedure' \in Cards
          /\ selectedCards' = {selectedProcedure'}
          /\ UNCHANGED <<currentStep, generatedProjectId, windowGeneratedScripts,
                         inFlight, generateBtnDisabled, activeSteps>>]_vars

\* A card was selected while a request was in flight, with an artifact id
\* from an earlier success and another card selected before.
C14_Witness ==
    /\ lastOp = "select"
    /\ selectedProcedure = "proc_x"
    /\ procedureName = "Procedur A"
    /\ inFlight > 0
    /\ ~IsNullish(generatedProjectId)

\* C15 (the claim as stated): selecting a card has no error outcome: also
\* for a key the procedures lookup does not hold, the handler completes
\* normally with the selection set.
C15_SelectNeverThrows ==
    [][lastOp' = "select" =>
          /\ ~uncaught'
          /\ selectedProcedure' \in Cards]_vars

\* C16 (the claim as stated): entering a step again leaves what entering it
\* once leaves: the download button has one click listener however often
\* step 4 was entered, so one click makes exactly one download navigation.
C16_StepEntryIdempotent ==
    /\ downloadListeners <= 1
    /\ (page = "wizard" /\ lastOp = "download" /\ ~IsNullish(generatedProjectId))
           => Len(navigations) = 1

\* C17: a download click without an artifact id shows a warning and assigns
\* no location; with an artifact id every location it assigns is the
\* download location of exactly that id; the state is unchanged either way.
C17_DownloadUsesArtifactId ==
    [][lastOp' = "download" =>
          LET id == IF page = "wizard" THEN generatedProjectId
                    ELSE currentProjectId IN
          /\ IsNullish(id) =>
                navigations' = <<>> /\ HasToast(toasts', "warning")
          /\ ~IsNullish(id) =>
                /\ navigations' # <<>>
                /\ \A i \in 1..Len(navigations') :
                      navigations'[i] = "/vr-studio/download/" \o id
          /\ UNCHANGED <<currentStep, selectedProcedure, generatedProjectId,
                         windowGeneratedScripts, currentProjectId,
                         generatedScripts, inFlight, unloaded>>]_vars

\* The download of artifact p2 was started in the wizard.
C17_Witness ==
    /\ page = "wizard"
    /\ lastOp = "download"
    /\ generatedProjectId = "p2"
    /\ navigations # <<>>

\* The message a failure body carries: its error field, or the generic
\* text when it has none.
FailureMessage(data) ==
    IF data.error = UNDEFINED THEN "Okänt fel" ELSE data.error

\* C18: when a call resolves with success false, the error shown is the
\* body's error field when it has one and the generic text otherwise (in
\* the preview as it is, in the toast after "Fel: "); a missing artifact id
\* stays missing, and Next at step 3 without an artifact id stays at step 3
\* with a warning.
C18_FailureMessageShown ==
    [][/\ \A r \in Responses :
             ((GenerateResponse(r) \/ StudioResponse(r))
                 /\ r.kind = "json" /\ ~r.data.success) =>
                 /\ toasts' = <<Toast("Fel: " \o FailureMessage(r.data), "error")>>
                 /\ page = "wizard" =>
                       codePreview' = [t |-> "error",
                                       detail |-> <<FailureMessage(r.data)>>]
                 /\ IsNullish(generatedProjectId) => IsNullish(generatedProjectId')
       /\ (lastOp' = "next" /\ currentStep = 3 /\ IsNullish(generatedProjectId)) =>
             /\ currentStep' = 3
             /\ HasToast(toasts', "warning")]_vars

\* Next was refused at step 3 while the preview shows the error "boom" of a
\* failed call and no artifact id was ever set.
C18_Witness ==
    /\ lastOp = "next"
    /\ currentStep = 3
    /\ codePreview = [t |-> "error", detail |-> <<"boom">>]
    /\ IsNullish(generatedProjectId)
    /\ ~successSeen
    /\ HasToast(toasts, "warning")

\* C19: the wizard starts at step 1 with no selection and no artifact id;
\* the step changes only in a Next or Previous click, the selection only in
\* a card click, the artifact id only when a response is handled; issuing
\* a request and handling its response leave step and selection alone, and
\* Next and Previous leave selection and artifact id alone.
C19_SingleWriters ==
    [][/\ lastOp = "load" =>
             /\ currentStep = 1
             /\ selectedProcedure = NULL
             /\ generatedProjectId = NULL
       /\ currentStep' # currentStep => lastOp' \in {"next", "prev"}
       /\ selectedProcedure' # selectedProcedure => lastOp' = "select"
       /\ generatedProjectId' # generatedProjectId => lastOp' = "response"
       /\ lastOp' \in {"generate", "response"} =>
             UNCHANGED <<currentStep, selectedProcedure>>
       /\ lastOp' \in {"next", "prev"} =>
             UNCHANGED <<selectedProcedure, generatedProjectId>>]_vars

\* A response set the artifact id after the user had gone back to step 1.
C19_Witness ==
    /\ lastOp = "response"
    /\ currentStep = 1
    /\ selectedProcedure = "proc_a"
    /\ generatedProjectId = "p2"

\* C20: after every step transition the shown panel is the one of the new
\* step, the markers before it are completed, its own is active, those
\* after it are neither, and Previous is disabled exactly at step 1.
C20_PresentationFollowsStep ==
    [][currentStep' # currentStep =>
          /\ activeSteps' = {currentStep'}
          /\ \A i \in Steps :
                progressClass'[i] = IF i < currentStep' THEN "completed"
                                    ELSE IF i = currentStep' THEN "active"
                                    ELSE ""
          /\ prevBtnDisabled' <=> (currentStep' = 1)]_vars

\* Previous brought the wizard back to step 1 and is now disabled.
C20_Witness ==
    /\ lastOp = "prev"
    /\ currentStep = 1
    /\ prevBtnDisabled
    /\ activeSteps = {1}
    /\ progressClass[2] = ""

\* C21 (the claim as stated): once the artifact id holds an id, no later
\* step of the page (navigation, card selection, a further generation
\* attempt that succeeds or fails) makes it null or undefined again.
C21_ArtifactIdMonotone ==
    [][/\ ~IsNullish(generatedProjectId) => ~IsNullish(generatedProjectId')
       /\ ~IsNullish(currentProjectId) => ~IsNullish(currentProjectId')]_vars

====
